---- MODULE Spec2Model ----
(***************************************************************************)
(* Model of the training-side core of robust-finger-tracking:             *)
(*   dataset.py            rigid_motion, pre_process                       *)
(*   train_joint_model.py  normalize_positions, training / export script   *)
(*   train_marker_model.py extract_features, generate_minibatch, script    *)
(*   exporter.py           write_integer, write_tensor, save_model         *)
(* Each component has its own specification (SpecRigid, SpecNormalize,     *)
(* SpecPre, SpecGen, SpecExport, SpecTrain); the variables of the other    *)
(* components stay at their initial values.                                *)
(***************************************************************************)
EXTENDS Integers, Sequences, FiniteSets, TLC

\* ---------------------------------------------------------------- bounds
MaxFrames == 3
NumMarkers == 4
MaxRows == 2
MaxLayers == 2
MaxSamples == 3
BatchSize == 2
MaxEpochs == 3
StepsPerEpoch == 2

\* ------------------------------------------------------ 3x3 linear algebra
\* Vectors are <<x, y, z>>, matrices are triples of rows.
Idx3 == 1..3

Transpose(A) == [i \in Idx3 |-> [j \in Idx3 |-> A[j][i]]]

MatMul(A, B) ==
    [i \in Idx3 |-> [j \in Idx3 |->
        A[i][1] * B[1][j] + A[i][2] * B[2][j] + A[i][3] * B[3][j]]]

\* numpy's p.dot(R) for a row vector p
Dot(p, A) == [j \in Idx3 |-> p[1] * A[1][j] + p[2] * A[2][j] + p[3] * A[3][j]]

VecAdd(p, q) == [j \in Idx3 |-> p[j] + q[j]]

Det3(A) ==
      A[1][1] * (A[2][2] * A[3][3] - A[2][3] * A[3][2])
    - A[1][2] * (A[2][1] * A[3][3] - A[2][3] * A[3][1])
    + A[1][3] * (A[2][1] * A[3][2] - A[2][2] * A[3][1])

\* V[2] = -V[2]: the row of index 2 (the third row) of the array named V
NegateLastRow(V) == [i \in Idx3 |-> IF i = 3 THEN [j \in Idx3 |-> 0 - V[3][j]] ELSE V[i]]

Identity3 == <<<<1, 0, 0>>, <<0, 1, 0>>, <<0, 0, 1>>>>

\* The orthogonal matrices with integer entries (signed permutation
\* matrices, 48 of them): the factors numpy.linalg.svd can return here.
UnitRows == {r \in [Idx3 -> {0 - 1, 0, 1}] : r[1] * r[1] + r[2] * r[2] + r[3] * r[3] = 1}

Orthogonal == {A \in [Idx3 -> UnitRows] : MatMul(A, Transpose(A)) = Identity3}

\* ------------------------------------------------- dataset.py rigid_motion
\* The rotation that rigid_motion returns, from the factors U and V that
\* np.linalg.svd(H) returned (V is the third returned array).
RigidR_NoRecompute(U, V) == MatMul(Transpose(V), Transpose(U))

RigidR(U, V) ==
    LET R == MatMul(Transpose(V), Transpose(U))
    IN  IF Det3(R) < 0
          THEN MatMul(Transpose(NegateLastRow(V)), Transpose(U))
          ELSE R

\* offset of rigid_motion is -X_mean.dot(R) + Y_mean, a float vector: the
\* model draws it from these vectors.
Offsets == {<<0, 0, 0>>, <<1, 0, 2>>}

\* Factors drawn for the per-frame and per-sample alignments: the identity
\* and a rotation by 90 degrees about z followed by a mirror in z.
MirrorRotZ90 == <<<<0, 0 - 1, 0>>, <<1, 0, 0>>, <<0, 0, 0 - 1>>>>

SvdFactors == {Identity3, MirrorRotZ90}

\* What a call of rigid_motion can do: return (R, offset), or raise (numpy
\* raises LinAlgError when the SVD does not converge, e.g. on non-finite input).
RigidOutcomes ==
    {[ok |-> TRUE, R |-> RigidR(U, V), offset |-> t] :
        U \in SvdFactors, V \in SvdFactors, t \in Offsets}
    \cup {[ok |-> FALSE, R |-> Identity3, offset |-> <<0, 0, 0>>]}

\* positions.dot(R) + offset on every marker of a cloud
ApplyMotion(cloud, R, offset) ==
    [m \in DOMAIN cloud |-> VecAdd(Dot(cloud[m], R), offset)]

\* ---------------------------------------------------------------- state
VARIABLES
    \* dataset.py rigid_motion: the SVD factors, R of line 82, the returned R
    r_U, r_V, r_cand, r_R, r_pc,
    \* train_joint_model.py normalize_positions: the argument as passed, the
    \* array it mutates in place, the loop index, the binding of the locals
    \* R and offset, the counter, the frames whose rigid_motion call raised
    n_in, positions_mocap, n_i, n_motion, error_count, n_raised, n_pc,
    \* dataset.py pre_process: the rows as passed, the three returned arrays,
    \* orientations_hand after line 72
    p_in, p_positions_hand, p_orientations_hand, p_positions_mocap, p_shifted, p_pc,
    \* exporter.py save_model: the model, whether open() has created the
    \* destination, the 4-byte words written to it, the counter of the first
    \* loop, the index of the running loop, the layers a record was written for
    model, e_exists, file, num_layers, e_k, e_records, e_pc,
    \* train_marker_model.py generate_minibatch: X.shape[0], the two
    \* arguments, the cursor, the permutation, the number of rows of the batch
    \* filled so far, the sample index, mask and alignment of the newest row,
    \* that row of X_batch and of Y_batch, the indices drawn since the last
    \* permutation was drawn
    g_M, min_occlusions, max_occlusions, counter, indices, g_i, g_idx,
    occluded_idxs, g_motion, g_x, g_y, g_pass, g_pc,
    \* the two training scripts: which script runs, perform_validation, the
    \* epochs and the steps of the running epoch done by fit, the number of
    \* weight updates the model has had, the exception fit ended with, the
    \* weights each call of save_model was given with its destination
    t_script, perform_validation, t_epoch, t_step, t_weights, t_exc, t_saved, t_pc

rigidVars == <<r_U, r_V, r_cand, r_R, r_pc>>

normVars == <<n_in, positions_mocap, n_i, n_motion, error_count, n_raised, n_pc>>

preVars ==
    <<p_in, p_positions_hand, p_orientations_hand, p_positions_mocap, p_shifted, p_pc>>

exportVars == <<model, e_exists, file, num_layers, e_k, e_records, e_pc>>

genVars ==
    <<g_M, min_occlusions, max_occlusions, counter, indices, g_i, g_idx,
      occluded_idxs, g_motion, g_x, g_y, g_pass, g_pc>>

trainVars ==
    <<t_script, perform_validation, t_epoch, t_step, t_weights, t_exc, t_saved, t_pc>>

vars == <<rigidVars, normVars, preVars, exportVars, genVars, trainVars>>

\* ------------------------------------------------ rigid_motion, lines 81-87
RigidIdle ==
    /\ r_U = Identity3
    /\ r_V = Identity3
    /\ r_cand = Identity3
    /\ r_R = Identity3
    /\ r_pc = "idle"

\* after U, S, V = np.linalg.svd(H)
RigidInit ==
    /\ r_U \in Orthogonal
    /\ r_V \in Orthogonal
    /\ r_cand = Identity3
    /\ r_R = Identity3
    /\ r_pc = "svd"

\* lines 82-85 and 87, det(R) < 0: V is changed in place
RigidReflection ==
    /\ r_pc = "svd"
    /\ Det3(MatMul(Transpose(r_V), Transpose(r_U))) < 0
    /\ r_cand' = MatMul(Transpose(r_V), Transpose(r_U))
    /\ r_R' = RigidR(r_U, r_V)
    /\ r_V' = NegateLastRow(r_V)
    /\ r_pc' = "returned"
    /\ UNCHANGED r_U

\* lines 82-83 and 87, det(R) >= 0
RigidProper ==
    /\ r_pc = "svd"
    /\ Det3(MatMul(Transpose(r_V), Transpose(r_U))) >= 0
    /\ r_cand' = MatMul(Transpose(r_V), Transpose(r_U))
    /\ r_R' = RigidR(r_U, r_V)
    /\ r_pc' = "returned"
    /\ UNCHANGED <<r_U, r_V>>

RigidNext ==
    \/ RigidReflection /\ UNCHANGED <<normVars, preVars, exportVars, genVars, trainVars>>
    \/ RigidProper /\ UNCHANGED <<normVars, preVars, exportVars, genVars, trainVars>>

\* ------------------------- train_joint_model.py normalize_positions, 65-78
\* A captured frame: a cloud of NumMarkers points.
Cloud(s) == [m \in 1..NumMarkers |-> <<s + m, m, s>>]

Clouds == {Cloud(0), Cloud(2)}

Unbound == [bound |-> FALSE, R |-> Identity3, offset |-> <<0, 0, 0>>]

NormIdle ==
    /\ n_in = <<>>
    /\ positions_mocap = <<>>
    /\ n_i = 1
    /\ n_motion = Unbound
    /\ error_count = 0
    /\ n_raised = {}
    /\ n_pc = "idle"

\* lines 67-69: the call, before the loop
NormInit ==
    /\ n_in \in UNION {[1..n -> Clouds] : n \in 0..MaxFrames}
    /\ positions_mocap = n_in
    /\ n_i = 1
    /\ n_motion = Unbound
    /\ error_count = 0
    /\ n_raised = {}
    /\ n_pc = "loop"

\* lines 71-73 and 76: rigid_motion returns, the frame is transformed
NormFrameAligned ==
    /\ n_pc = "loop"
    /\ n_i <= Len(positions_mocap)
    /\ \E out \in RigidOutcomes :
        /\ out.ok
        /\ n_motion' = [bound |-> TRUE, R |-> out.R, offset |-> out.offset]
        /\ positions_mocap' =
             [positions_mocap EXCEPT ![n_i] = ApplyMotion(@, out.R, out.offset)]
    /\ n_i' = n_i + 1
    /\ UNCHANGED <<n_in, error_count, n_raised, n_pc>>

\* lines 71-76: rigid_motion raises, the bare except counts it, and line 76
\* runs with R and offset as an earlier iteration bound them
NormFrameFailedStale ==
    /\ n_pc = "loop"
    /\ n_i <= Len(positions_mocap)
    /\ n_motion.bound
    /\ \E out \in RigidOutcomes : ~out.ok
    /\ error_count' = error_count + 1
    /\ n_raised' = n_raised \cup {n_i}
    /\ positions_mocap' =
         [positions_mocap EXCEPT ![n_i] = ApplyMotion(@, n_motion.R, n_motion.offset)]
    /\ n_i' = n_i + 1
    /\ UNCHANGED <<n_in, n_motion, n_pc>>

\* lines 71-76: rigid_motion raises before R was ever bound; line 76 raises
\* UnboundLocalError, which leaves normalize_positions
NormFrameFailedUnbound ==
    /\ n_pc = "loop"
    /\ n_i <= Len(positions_mocap)
    /\ ~n_motion.bound
    /\ \E out \in RigidOutcomes : ~out.ok
    /\ error_count' = error_count + 1
    /\ n_raised' = n_raised \cup {n_i}
    /\ n_pc' = "raised"
    /\ UNCHANGED <<n_in, positions_mocap, n_i, n_motion>>

\* lines 77-78
NormReturn ==
    /\ n_pc = "loop"
    /\ n_i > Len(positions_mocap)
    /\ n_pc' = "returned"
    /\ UNCHANGED <<n_in, positions_mocap, n_i, n_motion, error_count, n_raised>>

NormNext ==
    \/ NormFrameAligned /\ UNCHANGED <<rigidVars, preVars, exportVars, genVars, trainVars>>
    \/ NormFrameFailedStale /\ UNCHANGED <<rigidVars, preVars, exportVars, genVars, trainVars>>
    \/ NormFrameFailedUnbound /\ UNCHANGED <<rigidVars, preVars, exportVars, genVars, trainVars>>
    \/ NormReturn /\ UNCHANGED <<rigidVars, preVars, exportVars, genVars, trainVars>>

\* ------------------------------------------- dataset.py pre_process, 62-75
\* Raw joint angles in degrees; 450 is outside the range 0..360.
Angles == {0, 90, 179, 180, 181, 270, 360, 450}

\* A row of the three arrays: its index in the capture, whether its
\* positions_mocap entry holds a NaN, and its joint angle.
RawRows(n) == {rows \in [1..n -> [nan : BOOLEAN, angle : Angles, id : 1..n]] :
                  \A k \in 1..n : rows[k].id = k}

\* line 64: rows whose positions_mocap holds no NaN
NoNaN(row) == ~row.nan

\* line 72: orientations_hand[orientations_hand > 180] -= 360
ShiftAngle_Geq(a) == IF a >= 180 THEN a - 360 ELSE a

ShiftAngle(a) == IF a > 180 THEN a - 360 ELSE a

\* line 73: the quotient by 180, kept as a fraction
Div180(a) == [num |-> a, den |-> 180]

PreIdle ==
    /\ p_in = <<>>
    /\ p_positions_hand = <<>>
    /\ p_orientations_hand = <<>>
    /\ p_positions_mocap = <<>>
    /\ p_shifted = <<>>
    /\ p_pc = "idle"

PreInit ==
    /\ p_in \in UNION {RawRows(n) : n \in 0..MaxRows}
    /\ p_positions_hand = <<>>
    /\ p_orientations_hand = <<>>
    /\ p_positions_mocap = <<>>
    /\ p_shifted = <<>>
    /\ p_pc = "call"

\* lines 64-75, one call
PreProcess ==
    /\ p_pc = "call"
    /\ LET kept == SelectSeq(p_in, NoNaN)
       IN  /\ p_positions_hand' = [k \in DOMAIN kept |-> kept[k].id]
           /\ p_positions_mocap' = [k \in DOMAIN kept |-> kept[k].id]
           /\ p_shifted' = [k \in DOMAIN kept |-> ShiftAngle(kept[k].angle)]
           /\ p_orientations_hand' =
                [k \in DOMAIN kept |-> Div180(ShiftAngle(kept[k].angle))]
    /\ p_pc' = "returned"
    /\ UNCHANGED p_in

PreNext == PreProcess /\ UNCHANGED <<rigidVars, normVars, exportVars, genVars, trainVars>>

\* ------------------------------------------------------------ exporter.py
LAYER_TYPES == [Dense |-> 0, SimpleRNN |-> 1, LSTM |-> 2]

ACTIVATION_TYPES == [relu |-> 0, linear |-> 1, sigmoid |-> 2, tanh |-> 3, hard_sigmoid |-> 4]

\* float32 values as the 4-byte word tofile writes: 0.0, 1.0, -1.0
F32_Zero == 0
F32_One == 1065353216
F32_MinusOne == 0 - 1082130432

\* Weight lists as get_weights() returns them: tensors with a shape and
\* their values in row-major order.
KernelBias ==
    << [shape |-> <<2, 1>>, data |-> <<F32_One, F32_MinusOne>>],
       [shape |-> <<1>>, data |-> <<F32_Zero>>] >>

KernelOnly == << [shape |-> <<1, 2>>, data |-> <<F32_MinusOne, F32_One>>] >>

\* The layers a Keras model is built from here: a concrete layer, possibly
\* inside a TimeDistributed or Bidirectional wrapper. Dropout stands for the
\* kinds without an entry in LAYER_TYPES: it has no activation and no weights.
Layers ==
    [wrap : {"none", "TimeDistributed"}, kind : {"Dense"},
     activation : {"relu", "hard_sigmoid", "softmax"}, weights : {KernelBias, KernelOnly}]
    \cup
    [wrap : {"none", "Bidirectional"}, kind : {"SimpleRNN", "LSTM"},
     activation : {"tanh", "softmax"}, weights : {KernelBias}]
    \cup
    [wrap : {"none", "TimeDistributed"}, kind : {"Dropout"},
     activation : {"none"}, weights : {<<>>}]

\* type(layer).__name__
TypeName(layer) == IF layer.wrap # "none" THEN layer.wrap ELSE layer.kind

\* lines 28-29 and 41-42: layer = layer.layer for the two wrappers
Unwrap(layer) ==
    IF TypeName(layer) = "TimeDistributed" \/ TypeName(layer) = "Bidirectional"
      THEN [layer EXCEPT !.wrap = "none"]
      ELSE layer

\* lines 30 and 44: type(layer).__name__ in LAYER_TYPES, after unwrapping
InLayerTypes_NoLSTM(layer) == TypeName(Unwrap(layer)) \in {"Dense", "SimpleRNN"}

InLayerTypes(layer) == TypeName(Unwrap(layer)) \in DOMAIN LAYER_TYPES

\* lines 28-30: the selection of the first loop (unwrap, then the test)
CountsLayer_NoUnwrap(layer) == TypeName(layer) \in DOMAIN LAYER_TYPES

CountsLayer(layer) == InLayerTypes(layer)

\* line 33: the test whose failure raises in the first loop
ActivationChecked_Never(layer) == TRUE

ActivationChecked(layer) == Unwrap(layer).activation \in DOMAIN ACTIVATION_TYPES

\* line 21-22
write_integer(f, value) == Append(f, value)

\* lines 17-19: the shape entries, then the values
write_tensor(f, tensor) == f \o tensor.shape \o tensor.data

\* lines 48-50
RECURSIVE write_weights(_, _, _)
write_weights(f, weights, i) ==
    IF i > Len(weights) THEN f
    ELSE write_weights(write_tensor(f, weights[i]), weights, i + 1)

ExportIdle ==
    /\ model = <<>>
    /\ e_exists = FALSE
    /\ file = <<>>
    /\ num_layers = 0
    /\ e_k = 1
    /\ e_records = <<>>
    /\ e_pc = "idle"

\* line 26: the call; the destination does not exist yet
ExportInit ==
    /\ model \in UNION {[1..n -> Layers] : n \in 0..MaxLayers}
    /\ e_exists = FALSE
    /\ file = <<>>
    /\ num_layers = 0
    /\ e_k = 1
    /\ e_records = <<>>
    /\ e_pc = "count"

\* lines 27-30: a layer whose kind is not in LAYER_TYPES is passed over
CountSkip ==
    /\ e_pc = "count"
    /\ e_k <= Len(model)
    /\ ~CountsLayer(model[e_k])
    /\ e_k' = e_k + 1
    /\ UNCHANGED <<model, e_exists, file, num_layers, e_records, e_pc>>

\* lines 27-34: a layer of a kind in LAYER_TYPES is counted; an activation
\* outside ACTIVATION_TYPES raises
CountLayer ==
    /\ e_pc = "count"
    /\ e_k <= Len(model)
    /\ CountsLayer(model[e_k])
    /\ num_layers' = num_layers + 1
    /\ IF ActivationChecked(model[e_k])
         THEN e_k' = e_k + 1 /\ e_pc' = e_pc
         ELSE e_k' = e_k /\ e_pc' = "raised"
    /\ UNCHANGED <<model, e_exists, file, e_records>>

\* lines 36-39: open(filename, 'wb') and the header
OpenFile ==
    /\ e_pc = "count"
    /\ e_k > Len(model)
    /\ e_exists' = TRUE
    /\ file' = write_integer(<<>>, num_layers)
    /\ e_k' = 1
    /\ e_pc' = "write"
    /\ UNCHANGED <<model, num_layers, e_records>>

\* lines 40-44
WriteSkip ==
    /\ e_pc = "write"
    /\ e_k <= Len(model)
    /\ ~InLayerTypes(model[e_k])
    /\ e_k' = e_k + 1
    /\ UNCHANGED <<model, e_exists, file, num_layers, e_records, e_pc>>

\* lines 40-50: the record of one layer; ACTIVATION_TYPES[...] of line 46
\* raises KeyError, after line 45 has written, for a name it does not hold
WriteLayer ==
    /\ e_pc = "write"
    /\ e_k <= Len(model)
    /\ InLayerTypes(model[e_k])
    /\ LET layer == Unwrap(model[e_k])
           f1 == write_integer(file, LAYER_TYPES[TypeName(layer)])
       IN  IF layer.activation \in DOMAIN ACTIVATION_TYPES
             THEN /\ file' = write_weights(
                               write_integer(f1, ACTIVATION_TYPES[layer.activation]),
                               layer.weights, 1)
                  /\ e_records' = Append(e_records, e_k)
                  /\ e_k' = e_k + 1
                  /\ e_pc' = e_pc
             ELSE /\ file' = f1
                  /\ e_pc' = "raised"
                  /\ UNCHANGED <<e_k, e_records>>
    /\ UNCHANGED <<model, e_exists, num_layers>>

\* lines 52-53
CloseFile ==
    /\ e_pc = "write"
    /\ e_k > Len(model)
    /\ e_pc' = "done"
    /\ UNCHANGED <<model, e_exists, file, num_layers, e_k, e_records>>

ExportNext ==
    \/ CountSkip /\ UNCHANGED <<rigidVars, normVars, preVars, genVars, trainVars>>
    \/ CountLayer /\ UNCHANGED <<rigidVars, normVars, preVars, genVars, trainVars>>
    \/ OpenFile /\ UNCHANGED <<rigidVars, normVars, preVars, genVars, trainVars>>
    \/ WriteSkip /\ UNCHANGED <<rigidVars, normVars, preVars, genVars, trainVars>>
    \/ WriteLayer /\ UNCHANGED <<rigidVars, normVars, preVars, genVars, trainVars>>
    \/ CloseFile /\ UNCHANGED <<rigidVars, normVars, preVars, genVars, trainVars>>

\* ------------------------------ train_marker_model.py, lines 70-88, 91-123
\* The training set: sample idx (0-based) is a cloud of NumMarkers points;
\* marker 0 of sample 0 lies at the origin.
TrainingSample(idx) == [m \in 1..NumMarkers |-> <<idx, m - 1, idx + m - 1>>]

\* x.flatten(): marker-major, then x, y, z
Flatten(cloud) ==
    [j \in 1..(3 * Len(cloud)) |-> cloud[((j - 1) \div 3) + 1][((j - 1) % 3) + 1]]

\* lines 85-86: x = y.copy(); x[occluded] = 0 (marker indices are 0-based)
ZeroOccluded_OffByOne(y, occluded) ==
    [m \in DOMAIN y |-> IF m \in occluded THEN <<0, 0, 0>> ELSE y[m]]

ZeroOccluded(y, occluded) ==
    [m \in DOMAIN y |-> IF (m - 1) \in occluded THEN <<0, 0, 0>> ELSE y[m]]

\* lines 79-88, for the (R, offset) that line 83 returned
extract_features(mocap_sample, occlusions, R, offset) ==
    LET y == ApplyMotion(mocap_sample, R, offset)
        x == ZeroOccluded(y, occlusions)
    IN  [x |-> Flatten(x), y |-> Flatten(y)]

\* line 107: np.random.permutation(X.shape[0])
permutation(n) ==
    {q \in [1..n -> 0..(n - 1)] : \A a, b \in 1..n : q[a] = q[b] => a = b}

\* line 106
NeedsShuffle_Early(c, n) == c >= n - 1

NeedsShuffle(c, n) == c = n

\* lines 113-116: randint(min, max + 1), or choice(4, p) + 1
OcclusionCounts(lo, hi) == IF lo # 0 - 1 THEN lo..hi ELSE 1..4

\* line 117: np.random.choice(len(all_markers), k, replace=False)
ChooseMarkers(k) == {S \in SUBSET (0..(NumMarkers - 1)) : Cardinality(S) = k}

GenIdle ==
    /\ g_M = 0
    /\ min_occlusions = 0
    /\ max_occlusions = 0
    /\ counter = 0
    /\ indices = <<>>
    /\ g_i = 0
    /\ g_idx = 0
    /\ occluded_idxs = {}
    /\ g_motion = Unbound
    /\ g_x = <<>>
    /\ g_y = <<>>
    /\ g_pass = <<>>
    /\ g_pc = "idle"

\* line 100, and lines 103-104 of the first batch; the arguments are those
\* of the calls of lines 136 and 181-186: (-1, -1) or (k, k)
GenInit ==
    /\ g_M \in 1..MaxSamples
    /\ min_occlusions \in (0 - 1)..NumMarkers
    /\ max_occlusions = min_occlusions
    /\ counter = g_M
    /\ indices = <<>>
    /\ g_i = 0
    /\ g_idx = 0
    /\ occluded_idxs = {}
    /\ g_motion = Unbound
    /\ g_x = <<>>
    /\ g_y = <<>>
    /\ g_pass = <<>>
    /\ g_pc = "draw"

\* lines 106-111: the draw of one sample index, with a new permutation when
\* the cursor asks for one. The locals of the iteration before (the mask, R
\* and offset, x, y) are dead from here on and are reset.
GenDraw ==
    /\ g_pc = "draw"
    /\ g_i < BatchSize
    /\ \E perm \in IF NeedsShuffle(counter, g_M) THEN permutation(g_M) ELSE {indices} :
         LET c == IF NeedsShuffle(counter, g_M) THEN 0 ELSE counter
         IN  /\ c + 1 \in DOMAIN perm
             /\ indices' = perm
             /\ g_idx' = perm[c + 1]
             /\ counter' = c + 1
             /\ g_pass' = IF NeedsShuffle(counter, g_M)
                            THEN <<perm[c + 1]>>
                            ELSE Append(g_pass, perm[c + 1])
    /\ occluded_idxs' = {}
    /\ g_motion' = Unbound
    /\ g_x' = <<>>
    /\ g_y' = <<>>
    /\ g_pc' = "mask"
    /\ UNCHANGED <<g_M, min_occlusions, max_occlusions, g_i>>

\* lines 113-117: the number of occlusions and the occluded markers
GenMask ==
    /\ g_pc = "mask"
    /\ \E k \in OcclusionCounts(min_occlusions, max_occlusions) :
       \E mask \in ChooseMarkers(k) :
          occluded_idxs' = mask
    /\ g_pc' = "extract"
    /\ UNCHANGED <<g_M, min_occlusions, max_occlusions, counter, indices, g_i, g_idx,
                   g_motion, g_x, g_y, g_pass>>

\* lines 118-121: rigid_motion returns inside extract_features and the row
\* is stored in X_batch[i], Y_batch[i]
GenExtract ==
    /\ g_pc = "extract"
    /\ \E out \in RigidOutcomes :
          /\ out.ok
          /\ g_motion' = [bound |-> TRUE, R |-> out.R, offset |-> out.offset]
          /\ LET f == extract_features(TrainingSample(g_idx), occluded_idxs, out.R, out.offset)
             IN  g_x' = f.x /\ g_y' = f.y
    /\ g_i' = g_i + 1
    /\ g_pc' = IF g_i + 1 = BatchSize THEN "yield" ELSE "draw"
    /\ UNCHANGED <<g_M, min_occlusions, max_occlusions, counter, indices, g_idx,
                   occluded_idxs, g_pass>>

\* line 118: rigid_motion raises inside extract_features (line 83); neither
\* extract_features nor generate_minibatch catches it, and the generator ends
GenExtractRaises ==
    /\ g_pc = "extract"
    /\ \E out \in RigidOutcomes : ~out.ok
    /\ g_pc' = "raised"
    /\ UNCHANGED <<g_M, min_occlusions, max_occlusions, counter, indices, g_i, g_idx,
                   occluded_idxs, g_motion, g_x, g_y, g_pass>>

\* line 123, and lines 103-104 of the next batch
GenYield ==
    /\ g_pc = "yield"
    /\ g_i' = 0
    /\ g_pc' = "draw"
    /\ UNCHANGED <<g_M, min_occlusions, max_occlusions, counter, indices, g_idx,
                   occluded_idxs, g_motion, g_x, g_y, g_pass>>

GenNext ==
    \/ GenDraw /\ UNCHANGED <<rigidVars, normVars, preVars, exportVars, trainVars>>
    \/ GenMask /\ UNCHANGED <<rigidVars, normVars, preVars, exportVars, trainVars>>
    \/ GenExtract /\ UNCHANGED <<rigidVars, normVars, preVars, exportVars, trainVars>>
    \/ GenExtractRaises /\ UNCHANGED <<rigidVars, normVars, preVars, exportVars, trainVars>>
    \/ GenYield /\ UNCHANGED <<rigidVars, normVars, preVars, exportVars, trainVars>>

\* ------- train_joint_model.py 129-171 and train_marker_model.py 135-186
\* except KeyboardInterrupt: the clause of lines 133 / 143
CaughtByExcept_Nothing(exc) == FALSE

CaughtByExcept(exc) == exc = "KeyboardInterrupt"

\* the destination given to save_model, lines 138 / 148
ModelFile(script) == IF script = "joint" THEN "joint_model.bin" ELSE "marker_model.bin"

TrainIdle ==
    /\ t_script = "none"
    /\ perform_validation = FALSE
    /\ t_epoch = 0
    /\ t_step = 0
    /\ t_weights = 0
    /\ t_exc = "none"
    /\ t_saved = <<>>
    /\ t_pc = "idle"

\* the script has compiled its model and enters the try block
TrainInit ==
    /\ t_script \in {"joint", "marker"}
    /\ perform_validation \in BOOLEAN
    /\ t_epoch = 0
    /\ t_step = 0
    /\ t_weights = 0
    /\ t_exc = "none"
    /\ t_saved = <<>>
    /\ t_pc = "fit"

\* one minibatch of model.fit / model.fit_generator
TrainStep ==
    /\ t_pc = "fit"
    /\ t_epoch < MaxEpochs
    /\ t_weights' = t_weights + 1
    /\ IF t_step + 1 = StepsPerEpoch
         THEN t_epoch' = t_epoch + 1 /\ t_step' = 0
         ELSE t_epoch' = t_epoch /\ t_step' = t_step + 1
    /\ UNCHANGED <<t_script, perform_validation, t_exc, t_saved, t_pc>>

\* fit returns: all the epochs are done, or stop_callback ends the training
\* at the end of an epoch
TrainReturns ==
    /\ t_pc = "fit"
    /\ t_step = 0
    /\ t_epoch = MaxEpochs \/ t_epoch >= 1
    /\ t_pc' = "save"
    /\ UNCHANGED <<t_script, perform_validation, t_epoch, t_step, t_weights, t_exc, t_saved>>

\* an exception leaves fit: the except clause takes it, or it ends the script
FitRaises(exc) ==
    /\ t_pc = "fit"
    /\ t_exc' = exc
    /\ t_pc' = IF CaughtByExcept(exc) THEN "caught" ELSE "crashed"
    /\ UNCHANGED <<t_script, perform_validation, t_epoch, t_step, t_weights, t_saved>>

\* the user stops the training
TrainInterrupt == FitRaises("KeyboardInterrupt")

\* any other exception, e.g. one that left the minibatch generator
TrainError == FitRaises("Exception")

\* lines 133-135 / 143-145: pass
TrainCaught ==
    /\ t_pc = "caught"
    /\ t_pc' = "save"
    /\ UNCHANGED <<t_script, perform_validation, t_epoch, t_step, t_weights, t_exc, t_saved>>

\* lines 138 / 148: save_model(model, ...)
TrainSave ==
    /\ t_pc = "save"
    /\ t_saved' = Append(t_saved, [weights |-> t_weights, filename |-> ModelFile(t_script)])
    /\ t_pc' = IF t_script = "joint" /\ perform_validation THEN "done" ELSE "evaluate"
    /\ UNCHANGED <<t_script, perform_validation, t_epoch, t_step, t_weights, t_exc>>

\* lines 140-171 / 150-186: the evaluation on the test or validation set
TrainEvaluate ==
    /\ t_pc = "evaluate"
    /\ t_pc' = "done"
    /\ UNCHANGED <<t_script, perform_validation, t_epoch, t_step, t_weights, t_exc, t_saved>>

TrainNext ==
    \/ TrainStep /\ UNCHANGED <<rigidVars, normVars, preVars, exportVars, genVars>>
    \/ TrainReturns /\ UNCHANGED <<rigidVars, normVars, preVars, exportVars, genVars>>
    \/ TrainInterrupt /\ UNCHANGED <<rigidVars, normVars, preVars, exportVars, genVars>>
    \/ TrainError /\ UNCHANGED <<rigidVars, normVars, preVars, exportVars, genVars>>
    \/ TrainCaught /\ UNCHANGED <<rigidVars, normVars, preVars, exportVars, genVars>>
    \/ TrainSave /\ UNCHANGED <<rigidVars, normVars, preVars, exportVars, genVars>>
    \/ TrainEvaluate /\ UNCHANGED <<rigidVars, normVars, preVars, exportVars, genVars>>

\* ------------------------------------- a reader of the specified layout
\* int32 num_layers; per layer int32 kind code, int32 activation code, and
\* per tensor int32 ndims, ndims int32 shape entries, product(shape) float32
\* values. The reader knows how many tensors each layer has.
ReadFailed == [ok |-> FALSE]

\* product(shape), or cap + 1 as soon as it exceeds cap or an entry is negative
RECURSIVE ProductUpTo(_, _, _, _)
ProductUpTo(shape, i, acc, cap) ==
    IF i > Len(shape) THEN acc
    ELSE IF shape[i] < 0 \/ shape[i] > cap \/ acc * shape[i] > cap THEN cap + 1
    ELSE ProductUpTo(shape, i + 1, acc * shape[i], cap)

ReadTensor(words, pos) ==
    IF pos > Len(words) THEN ReadFailed
    ELSE LET ndims == words[pos]
         IN  IF ndims < 0 \/ ndims > Len(words) - pos THEN ReadFailed
             ELSE LET shape == SubSeq(words, pos + 1, pos + ndims)
                      n == ProductUpTo(shape, 1, 1, Len(words))
                  IN  IF n > Len(words) - pos - ndims THEN ReadFailed
                      ELSE [ok |-> TRUE,
                            tensor |-> [shape |-> shape,
                                        data |-> SubSeq(words, pos + ndims + 1, pos + ndims + n)],
                            next |-> pos + ndims + n + 1]

RECURSIVE ReadTensors(_, _, _, _)
ReadTensors(words, pos, count, acc) ==
    IF count = 0 THEN [ok |-> TRUE, tensors |-> acc, next |-> pos]
    ELSE LET t == ReadTensor(words, pos)
         IN  IF ~t.ok THEN ReadFailed
             ELSE ReadTensors(words, t.next, count - 1, Append(acc, t.tensor))

RECURSIVE ReadLayers(_, _, _, _, _)
ReadLayers(words, pos, n, counts, acc) ==
    IF Len(acc) = n THEN [ok |-> TRUE, layers |-> acc]
    ELSE IF pos + 1 > Len(words) \/ Len(acc) + 1 > Len(counts) THEN ReadFailed
    ELSE LET ts == ReadTensors(words, pos + 2, counts[Len(acc) + 1], <<>>)
         IN  IF ~ts.ok THEN ReadFailed
             ELSE ReadLayers(words, ts.next, n, counts,
                             Append(acc, [kind |-> words[pos], activation |-> words[pos + 1],
                                          tensors |-> ts.tensors]))

ReadModel(words, counts) ==
    IF Len(words) = 0 \/ words[1] < 0 THEN ReadFailed
    ELSE ReadLayers(words, 2, words[1], counts, <<>>)

\* ------------------------------------------------------- specifications
\* One component runs; the others are not running.
InitRigid ==
    RigidInit /\ NormIdle /\ PreIdle /\ ExportIdle /\ GenIdle /\ TrainIdle

InitNormalize ==
    NormInit /\ RigidIdle /\ PreIdle /\ ExportIdle /\ GenIdle /\ TrainIdle

InitPre ==
    PreInit /\ RigidIdle /\ NormIdle /\ ExportIdle /\ GenIdle /\ TrainIdle

InitExport ==
    ExportInit /\ RigidIdle /\ NormIdle /\ PreIdle /\ GenIdle /\ TrainIdle

InitGen ==
    GenInit /\ RigidIdle /\ NormIdle /\ PreIdle /\ ExportIdle /\ TrainIdle

InitTrain ==
    TrainInit /\ RigidIdle /\ NormIdle /\ PreIdle /\ ExportIdle /\ GenIdle

SpecRigid == InitRigid /\ [][RigidNext]_vars

SpecNormalize == InitNormalize /\ [][NormNext]_vars

SpecPre == InitPre /\ [][PreNext]_vars

SpecExport == InitExport /\ [][ExportNext]_vars

SpecGen == InitGen /\ [][GenNext]_vars

\* The interpreter runs the script to its end: a step that can be taken is taken.
SpecTrain == InitTrain /\ [][TrainNext]_vars /\ WF_vars(TrainNext)

\* ================================================================ claims

\* C1: in normalize_positions every frame whose rigid_motion call raised is
\* counted exactly once and keeps the positions it had before the call.
C1_FailedFrameCountedAndUntransformed ==
    /\ error_count = Cardinality(n_raised)
    /\ \A j \in n_raised : positions_mocap[j] = n_in[j]

\* C9: rigid_motion returns a proper rotation: determinant +1; in the
\* reflection case the returned R differs from the candidate of line 82 and is
\* the product built from V with its last row negated; otherwise the
\* candidate is returned unchanged.
C9_ProperRotation ==
    r_pc = "returned" =>
        /\ Det3(r_R) = 1
        /\ Det3(r_cand) < 0 =>
              /\ r_R # r_cand
              /\ r_R = MatMul(Transpose(r_V), Transpose(r_U))
        /\ Det3(r_cand) >= 0 => r_R = r_cand

C9_Witness ==
    /\ r_pc = "returned"
    /\ Det3(r_cand) < 0
    /\ r_R # r_cand
    /\ Det3(r_R) = 1

\* The kind, and the kind and activation codes, of the layer inside a wrapper
SupportedKinds == {"Dense", "SimpleRNN", "LSTM"}

SupportedActivations == {"relu", "linear", "sigmoid", "tanh", "hard_sigmoid"}

KindCode(kind) ==
    IF kind = "Dense" THEN 0 ELSE IF kind = "SimpleRNN" THEN 1 ELSE 2

ActivationCode(a) ==
    IF a = "relu" THEN 0 ELSE IF a = "linear" THEN 1 ELSE IF a = "sigmoid" THEN 2
    ELSE IF a = "tanh" THEN 3 ELSE 4

IsSupportedKind(k) == model[k].kind \in SupportedKinds

LayerIndices == [k \in 1..Len(model) |-> k]

C3_NoBytesOnFailure ==
    e_pc = "raised" => ~e_exists /\ file = <<>>

C3_Witness ==
    /\ e_pc = "raised"
    /\ e_k = 2
    /\ IsSupportedKind(1)
    /\ ~e_exists

\* The records a completed export is meant to hold
ExportedRecord(k) ==
    [kind |-> KindCode(model[k].kind),
     activation |-> ActivationCode(model[k].activation),
     tensors |-> model[k].weights]

ExportedRecords == [r \in DOMAIN e_records |-> ExportedRecord(e_records[r])]

TensorCounts == [r \in DOMAIN e_records |-> Len(model[e_records[r]].weights)]

\* C4: reading the file of a completed export by the specified layout (with
\* int32 ndims before each tensor's shape) yields the exported layers' kind
\* codes, activation codes, tensor shapes and tensor values, in model order.
C4_RoundTrip ==
    e_pc = "done" =>
        LET got == ReadModel(file, TensorCounts)
        IN  got.ok /\ got.layers = ExportedRecords

\* C11: when save_model has completed, the num_layers written as the header
\* is the number of layer records written after it; while the records are
\* being written their number never exceeds the header, and the header is
\* the counter of the first loop.
C11_HeaderCountsRecords ==
    /\ e_pc \in {"write", "done"} =>
          /\ file[1] = num_layers
          /\ Len(e_records) <= file[1]
    /\ e_pc = "done" => file[1] = Len(e_records)

\* a completed export of a wrapped Dense layer next to a Dropout layer
C11_Witness ==
    /\ e_pc = "done"
    /\ \E k \in DOMAIN model : model[k].kind = "Dense" /\ model[k].wrap = "TimeDistributed"
    /\ \E k \in DOMAIN model : model[k].kind = "Dropout"
    /\ file[1] = 1
    /\ Len(e_records) = 1

\* The indices drawn since the last permutation are all of 0..g_M-1, once each
FullPass(pass) ==
    /\ Len(pass) = g_M
    /\ \A a \in 0..(g_M - 1) : Cardinality({j \in DOMAIN pass : pass[j] = a}) = 1

\* C5: the cursor is reset and a permutation drawn only when the M entries of
\* the current permutation are consumed, so the samples drawn between two
\* permutations are the indices 0..M-1, once each; within a pass no index is
\* drawn twice.
C5_EverySampleOncePerPass ==
    /\ [](/\ Len(g_pass) = (IF indices = <<>> THEN 0 ELSE counter)
          /\ \A a, b \in DOMAIN g_pass : g_pass[a] = g_pass[b] => a = b
          /\ \A a \in DOMAIN g_pass : g_pass[a] \in 0..(g_M - 1) /\ g_pass[a] = indices[a])
    /\ [][(g_pc = "draw" /\ g_pc' = "mask") =>
             IF indices' # indices \/ counter' <= counter
               THEN (g_pass = <<>> \/ FullPass(g_pass)) /\ counter' = 1
               ELSE counter < g_M /\ counter' = counter + 1]_vars

\* a pass that ends and a pass that starts inside one minibatch
C5_Witness ==
    /\ g_M = 3
    /\ g_pc = "mask"
    /\ counter = 1
    /\ g_i = 1
    /\ Len(g_pass) = 1

\* The markers of the newest row, the aligned cloud it was made from
RowMarkers == 1..NumMarkers

AlignedCloud == ApplyMotion(TrainingSample(g_idx), g_motion.R, g_motion.offset)

\* C6: with min_occlusions = max_occlusions = k (k # -1) every stored sample
\* has a mask of k distinct markers; x is zero in the three coordinates of
\* each masked marker and equals y at every other marker; y is the aligned
\* cloud, also at the masked markers.
C6_ExactlyKOccluded ==
    (min_occlusions # 0 - 1 /\ g_x # <<>>) =>
        /\ Cardinality(occluded_idxs) = min_occlusions
        /\ occluded_idxs \subseteq 0..(NumMarkers - 1)
        /\ Len(g_x) = 3 * NumMarkers /\ Len(g_y) = 3 * NumMarkers
        /\ \A m \in RowMarkers : \A c \in Idx3 :
              /\ g_y[3 * (m - 1) + c] = AlignedCloud[m][c]
              /\ g_x[3 * (m - 1) + c] =
                    IF (m - 1) \in occluded_idxs THEN 0 ELSE g_y[3 * (m - 1) + c]

\* a row with two masked markers whose target is not the origin there
C6_Witness ==
    /\ min_occlusions = 2
    /\ g_x # <<>>
    /\ occluded_idxs = {1, 3}
    /\ g_y[4] # 0 /\ g_x[4] = 0
    /\ g_y[10] # 0 /\ g_x[10] = 0
    /\ g_x[1] = g_y[1]

\* C7: a failure of rigid_motion on a sample never leaves generate_minibatch:
\* the generator is never ended by it.
C7_FailureNeverPropagates == g_pc # "raised"

\* C8: an interrupt during fit is caught and save_model then runs; after
\* training ended, normally or by an interrupt, save_model has run exactly
\* once, on the weights as training left them.
C8_InterruptThenExport ==
    /\ [](t_exc = "KeyboardInterrupt" => t_pc # "crashed")
    /\ [](t_pc \in {"evaluate", "done"} =>
            /\ Len(t_saved) = 1
            /\ t_saved[1].weights = t_weights)
    /\ [](t_pc \in {"fit", "caught", "save"} => t_saved = <<>>)
    /\ ((t_exc = "KeyboardInterrupt") ~> (Len(t_saved) = 1))
    /\ ((t_pc = "save") ~> (Len(t_saved) = 1))

\* training interrupted inside an epoch, the partly trained weights exported
C8_Witness ==
    /\ t_exc = "KeyboardInterrupt"
    /\ t_pc = "done"
    /\ t_step = 1
    /\ Len(t_saved) = 1
    /\ t_saved[1].weights = t_weights
    /\ t_weights > 0

\* The raw angle of the k-th returned row
RawAngle(k) == p_in[p_positions_hand[k]].angle

InRange(a) == 0 <= a /\ a <= 360

\* C10 as stated: every raw angle in 0..360 is shifted into [-180, 180) and
\* its quotient by 180 lies in [-1, 1].
C10_ShiftedHalfOpenBelow ==
    p_pc = "returned" =>
        \A k \in DOMAIN p_orientations_hand :
            InRange(RawAngle(k)) =>
                /\ 0 - 180 <= p_shifted[k] /\ p_shifted[k] < 180
                /\ 0 - p_orientations_hand[k].den <= p_orientations_hand[k].num
                /\ p_orientations_hand[k].num <= p_orientations_hand[k].den

\* C10 amended: every raw angle in 0..360 is shifted into (-180, 180] (180
\* itself is not shifted, values above 180 lose 360), and its quotient by 180
\* lies in [-1, 1].
C10_ShiftedHalfOpenAbove ==
    p_pc = "returned" =>
        \A k \in DOMAIN p_orientations_hand :
            InRange(RawAngle(k)) =>
                /\ 0 - 180 < p_shifted[k] /\ p_shifted[k] <= 180
                /\ p_shifted[k] = IF RawAngle(k) > 180 THEN RawAngle(k) - 360 ELSE RawAngle(k)
                /\ p_orientations_hand[k].den = 180
                /\ p_orientations_hand[k].num = p_shifted[k]
                /\ 0 - p_orientations_hand[k].den <= p_orientations_hand[k].num
                /\ p_orientations_hand[k].num <= p_orientations_hand[k].den

C10_Witness ==
    /\ p_pc = "returned"
    /\ \E k \in DOMAIN p_shifted : RawAngle(k) = 180 /\ p_shifted[k] = 180
    /\ \E k \in DOMAIN p_shifted : RawAngle(k) = 181 /\ p_shifted[k] = 0 - 179

====
